---- MODULE Spec2Model ----
(***************************************************************************)
(* Transcript analyzer of the Fluent app (src/services/analysisService.ts) *)
(* as a state machine: a lexicon snapshot, one transcript with its locale  *)
(* and duration, and the results of the two entry points,                  *)
(* getHighlightedTranscript and getSessionAnalysis.                        *)
(*                                                                         *)
(* Strings are sequences of one-character strings.  Indices into a text    *)
(* are 0-based as in JavaScript; slice(a, b) is SubSeq(a + 1, b).          *)
(* Numbers that the code rounds to one decimal place are kept as integer   *)
(* tenths (20.0 percent is 200).                                           *)
(***************************************************************************)
EXTENDS Integers, Sequences, FiniteSets, TLC

\* Longest transcript drawn as input.
MaxLen == 3
\* Largest duration (minutes) drawn as input; durations start at -1.
MaxDuration == 1
\* Largest word count and filler count drawn as input to the density.
MaxCount == 80
\* Longest sequence of calls made on one lexicon.
MaxCalls == 2
\* Longest session history kept in the store.
MaxSessions == 3
\* Number of user objects told apart by their identity.
MaxRefs == 4
\* Longest transcript of final results, in characters.
MaxTranscript == 2
\* Most startListening calls waiting for the microphone permission.
MaxPending == 2

----------------------------------------------------------------------------
\* Characters.  "u"/"U" is a letter in both casings, "k" another letter,
\* "?" a punctuation mark that is regex syntax, " " white space, and
\* "σ"/"ς" (written "s1"/"s2") the Greek small sigma and final sigma:
\* two lowercase letters with the same uppercase letter "Σ" ("S0").
Alphabet == {"u", "U", "k", "?", " ", "s1", "s2"}

\* \w of a RegExp without the u flag: [A-Za-z0-9_].
IsWordChar(c) == c \in {"u", "U", "k", "K"}

\* WhiteSpace and LineTerminator, as used by String.prototype.trim and \s.
IsWhiteSpace(c) == c = " "

\* String.prototype.toUpperCase on a single character.
toUpperCaseChar(c) ==
  CASE c = "u" -> "U"
    [] c = "k" -> "K"
    [] c = "s1" -> "S0"
    [] c = "s2" -> "S0"
    [] OTHER -> c

\* String.prototype.toLowerCase on a single character.
toLowerCaseChar(c) ==
  CASE c = "U" -> "u"
    [] c = "K" -> "k"
    [] OTHER -> c

\* String.prototype.toLowerCase.
toLowerCase(s) == [i \in DOMAIN s |-> toLowerCaseChar(s[i])]

\* Canonicalize of a RegExp with the i flag and without the u flag: the
\* character's uppercase form.
Canonicalize(c) == toUpperCaseChar(c)

\* String.prototype.startsWith.
startsWith(s, p) == Len(p) <= Len(s) /\ SubSeq(s, 1, Len(p)) = p

\* String.prototype.slice(a, b) for 0 <= a <= b <= length.
slice(s, a, b) == SubSeq(s, a + 1, b)

\* String.prototype.trim.
RECURSIVE trimStart(_)
trimStart(s) ==
  IF s # <<>> /\ IsWhiteSpace(Head(s)) THEN trimStart(Tail(s)) ELSE s

RECURSIVE trimEnd(_)
trimEnd(s) ==
  IF s # <<>> /\ IsWhiteSpace(s[Len(s)])
  THEN trimEnd(SubSeq(s, 1, Len(s) - 1))
  ELSE s

trim(s) == trimEnd(trimStart(s))

\* String.prototype.split(/\s+/): cur is the token being read, acc the tokens
\* already cut; a run of white space ends the token.
RECURSIVE splitWhitespaceFrom(_, _, _, _)
splitWhitespaceFrom(s, i, cur, acc) ==
  IF i > Len(s) THEN Append(acc, cur)
  ELSE IF IsWhiteSpace(s[i])
       THEN IF i > 1 /\ IsWhiteSpace(s[i - 1])
            THEN splitWhitespaceFrom(s, i + 1, cur, acc)
            ELSE splitWhitespaceFrom(s, i + 1, <<>>, Append(acc, cur))
       ELSE splitWhitespaceFrom(s, i + 1, Append(cur, s[i]), acc)

\* split(''): one token per character.
splitCharacters(s) == [i \in DOMAIN s |-> <<s[i]>>]

splitWhitespace(s) == splitWhitespaceFrom(s, 1, <<>>, <<>>)

----------------------------------------------------------------------------
\* Lexicon entries.  A JSON value is a record with its type and its value.
Str(s) == [type |-> "string", val |-> s]
Arr(a) == [type |-> "array", val |-> a]
Undefined == [type |-> "undefined", val |-> <<>>]
Num == [type |-> "number", val |-> <<>>]

\* Truthy that tests for undefined only: '' and [] pass.
TruthyDefined(v) == v.type # "undefined"

\* JavaScript truthiness of a JSON value (the number is non-zero).
Truthy(v) ==
  CASE v.type = "undefined" -> FALSE
    [] v.type = "string" -> v.val # <<>>
    [] OTHER -> TRUE

LexiconEntry(category, term, bcp47Tags) ==
  [category |-> category, term |-> term, bcp47Tags |-> bcp47Tags]

en == <<"e", "n">>
enUS == <<"e", "n", "-", "U", "S">>
enGB == <<"e", "n", "-", "G", "B">>
eng == <<"e", "n", "g">>
fr == <<"f", "r">>

Locales == {en, enUS, enGB, eng, fr}

\* Lexicon snapshots (the imported lexicon.json).  LexTest is the lexicon of
\* analysisService.test.ts scaled to the alphabet; the others add bare
\* language tags, malformed entries, duplicate, multi-word and punctuated terms.
LexTest ==
  << LexiconEntry("FILLED_PAUSE", Str(<<"u">>), Arr(<<enUS>>)),
     LexiconEntry("FILLED_PAUSE", Str(<<"k">>), Arr(<<enGB>>)),
     LexiconEntry("DISCOURSE_MARKER", Str(<<"u", "k">>), Arr(<<enUS, enGB>>)),
     LexiconEntry("FILLED_PAUSE", Str(<<"k", "k">>), Arr(<<fr>>)) >>

LexMalformed ==
  << LexiconEntry("FILLED_PAUSE", Undefined, Arr(<<en>>)),
     LexiconEntry("FILLED_PAUSE", Str(<<>>), Arr(<<en>>)),
     LexiconEntry("FILLED_PAUSE", Str(<<"u">>), Undefined),
     LexiconEntry("FILLED_PAUSE", Str(<<"k">>), Arr(<<>>)),
     LexiconEntry("DISCOURSE_MARKER", Str(<<"u", "k">>), Arr(<<en, enUS>>)),
     LexiconEntry("FILLED_PAUSE", Str(<<"u">>), Arr(<<en>>)),
     LexiconEntry("PLACATING_TAG", Str(<<"k">>), Arr(<<eng>>)) >>

LexBrokenTerm ==
  << LexiconEntry("FILLED_PAUSE", Num, Arr(<<enUS>>)),
     LexiconEntry("FILLED_PAUSE", Str(<<"u">>), Arr(<<enGB, enUS>>)) >>

LexBrokenTags ==
  << LexiconEntry("FILLED_PAUSE", Str(<<"u">>), Arr(<<en>>)),
     LexiconEntry("DISCOURSE_MARKER", Str(<<"k">>), Str(en)) >>

LexPhrase ==
  << LexiconEntry("DISCOURSE_MARKER", Str(<<"u", " ", "k">>), Arr(<<en, enUS>>)),
     LexiconEntry("PLACATING_TAG", Str(<<"u", "?">>), Arr(<<en, enUS>>)),
     LexiconEntry("PLACATING_TAG", Str(<<"U">>), Arr(<<en, enUS>>)),
     LexiconEntry("FILLED_PAUSE", Str(<<"u">>), Arr(<<en, enUS>>)),
     LexiconEntry("OTHER", Str(<<"s1">>), Arr(<<en, enGB>>)) >>

Lexicons == {LexTest, LexMalformed, LexBrokenTerm, LexBrokenTags, LexPhrase}

Texts == UNION {[1..n -> Alphabet] : n \in 0..MaxLen}

Durations == (-1)..MaxDuration

----------------------------------------------------------------------------
VARIABLES
  lexiconData,  \* the imported lexicon (module state of analysisService.ts)
  text,         \* the transcript passed to both entry points
  language,     \* the locale passed to both entry points
  duration,     \* the duration of the last getSessionAnalysis call
  segments,     \* result of getHighlightedTranscript, <<>> before the call
  analysis,     \* result of getSessionAnalysis, NoAnalysis before the call
  logged,       \* what the calls passed to logger.warn and logger.error
  thrown,       \* the entry points whose call ended in an uncaught exception
  calls,        \* the calls made so far in a sequence of calls, oldest first
  reference,    \* the lexicon as imported, and what the first call returns on it
  store,        \* the state of useAppStore
  auth,         \* the useAuth hook: what it rendered, and its pending work
  speech        \* the useSpeechRecognition hook and its recognition object

\* The variables of the analyzer, and those of the rest of the application.
analyzerVars ==
  <<lexiconData, text, language, duration, segments, analysis, logged, thrown,
    calls, reference>>

hookVars == <<auth, speech>>

appVars == <<store, hookVars>>

vars == <<analyzerVars, appVars>>

----------------------------------------------------------------------------
\* The language subtag of a locale: the characters before its first "-".
baseLanguage(lang) ==
  IF \E i \in DOMAIN lang : lang[i] = "-"
  THEN SubSeq(lang, 1, (CHOOSE i \in DOMAIN lang :
                          lang[i] = "-" /\ \A j \in 1..(i - 1) : lang[j] # "-") - 1)
  ELSE lang

\* EntrySelected that compares the language subtag only, so that every
\* region of the language is selected.
EntrySelectedByLanguage(entry, lang) ==
  IF ~Truthy(entry.term) THEN "false"
  ELSE IF ~Truthy(entry.bcp47Tags) THEN "false"
  ELSE IF entry.bcp47Tags.type # "array" THEN "throw"
  ELSE IF \E i \in DOMAIN entry.bcp47Tags.val :
            baseLanguage(entry.bcp47Tags.val[i]) = baseLanguage(lang)
       THEN "true"
       ELSE "false"

\* The filter callback of getLexiconForLanguage on one entry: "true", "false",
\* or "throw" when .some is called on a truthy value that is no array.
EntrySelected(entry, lang) ==
  IF ~Truthy(entry.term) THEN "false"
  ELSE IF ~Truthy(entry.bcp47Tags) THEN "false"
  ELSE IF entry.bcp47Tags.type # "array" THEN "throw"
  ELSE IF \E i \in DOMAIN entry.bcp47Tags.val :
            LET tag == entry.bcp47Tags.val[i]
            IN  tag = lang \/ startsWith(tag, lang \o <<"-">>)
       THEN "true"
       ELSE "false"

\* getLexiconForLanguage: lexiconData.filter(...), in lexicon order.
getLexiconForLanguage(lang) ==
  IF \E i \in DOMAIN lexiconData : EntrySelected(lexiconData[i], lang) = "throw"
  THEN [threw |-> TRUE, val |-> <<>>]
  ELSE [threw |-> FALSE,
        val |-> SelectSeq(lexiconData, LAMBDA e : EntrySelected(e, lang) = "true")]

\* The characters term.replace(/[.*+?^${}()|[\]\\]/g, '\\$&') escapes.
RegexSpecial == {"?"}

\* One pattern atom per character of the term: the character, and whether
\* the replace put a backslash before it.
escapeRegex(term) ==
  [i \in DOMAIN term |-> [ch |-> term[i], escaped |-> term[i] \in RegexSpecial]]

\* createRegexFromLexicon without the empty-lexicon guard: patterns.join('|')
\* of no pattern is '', and \b()\b matches the empty string.
createRegexUnguarded(lexicon, lang) ==
  IF \E i \in DOMAIN lexicon : lexicon[i].term.type # "string"
  THEN [threw |-> TRUE, warned |-> FALSE,
        val |-> [kind |-> "nothing", patterns |-> <<>>, global |-> FALSE]]
  ELSE [threw |-> FALSE, warned |-> FALSE,
        val |-> [kind |-> "alternation",
                 patterns |-> IF Len(lexicon) = 0 THEN << <<>> >>
                              ELSE [i \in DOMAIN lexicon |->
                                      escapeRegex(lexicon[i].term.val)],
                 global |-> TRUE]]

\* createRegexFromLexicon: /(?!.*)/ for an empty lexicon, else
\* new RegExp(`\\b(${patterns.join('|')})\\b`, 'gi').
createRegexFromLexicon(lexicon, lang) ==
  IF Len(lexicon) = 0
  THEN [threw |-> FALSE, warned |-> TRUE,
        val |-> [kind |-> "nothing", patterns |-> <<>>, global |-> FALSE]]
  ELSE IF \E i \in DOMAIN lexicon : lexicon[i].term.type # "string"
  THEN [threw |-> TRUE, warned |-> FALSE,
        val |-> [kind |-> "nothing", patterns |-> <<>>, global |-> FALSE]]
  ELSE [threw |-> FALSE, warned |-> FALSE,
        val |-> [kind |-> "alternation",
                 patterns |-> [i \in DOMAIN lexicon |-> escapeRegex(lexicon[i].term.val)],
                 global |-> TRUE]]

\* \b at position i (between txt[i] and txt[i + 1], 1-based characters).
IsWordBoundary(txt, i) ==
  LET a == i > 0 /\ IsWordChar(txt[i])
      b == i < Len(txt) /\ IsWordChar(txt[i + 1])
  IN  a # b

\* An atom matches a character: an escaped or ordinary character stands for
\* itself, compared through Canonicalize (the i flag).
AtomMatches(atom, c) == Canonicalize(atom.ch) = Canonicalize(c)

\* One alternative of the group matches the text from position i on.
PatternMatchesAt(pattern, txt, i) ==
  /\ i + Len(pattern) <= Len(txt)
  /\ \A j \in DOMAIN pattern : AtomMatches(pattern[j], txt[i + j])

\* \b(p1|p2|...)\b tried at position i: the length matched by the first
\* alternative, in order, that matches and ends on a word boundary; -1 if none.
RECURSIVE MatchAlternatives(_, _, _, _)
MatchAlternatives(patterns, k, txt, i) ==
  IF k > Len(patterns) THEN -1
  ELSE IF /\ PatternMatchesAt(patterns[k], txt, i)
          /\ IsWordBoundary(txt, i + Len(patterns[k]))
       THEN Len(patterns[k])
       ELSE MatchAlternatives(patterns, k + 1, txt, i)

MatchAt(regex, txt, i) ==
  IF regex.kind = "nothing" THEN -1
  ELSE IF ~IsWordBoundary(txt, i) THEN -1
  ELSE MatchAlternatives(regex.patterns, 1, txt, i)

NoMatch == [found |-> FALSE, index |-> 0, matched |-> <<>>]

\* RegExp.prototype.exec from lastIndex: the leftmost match at or after it
\* (a regex without the g flag always starts at 0), or null.
RECURSIVE SearchFrom(_, _, _)
SearchFrom(regex, txt, i) ==
  IF i > Len(txt) THEN NoMatch
  ELSE LET n == MatchAt(regex, txt, i)
       IN  IF n >= 0
           THEN [found |-> TRUE, index |-> i, matched |-> slice(txt, i, i + n)]
           ELSE SearchFrom(regex, txt, i + 1)

exec(regex, txt, lastIndex) ==
  SearchFrom(regex, txt, IF regex.global THEN lastIndex ELSE 0)

----------------------------------------------------------------------------
Null == "null"

Segment(t, isFiller, category) ==
  [text |-> t, isFiller |-> isFiller, category |-> category]

\* isBlank without the trim: only the empty string is blank.
isBlankNoTrim(txt) == txt = <<>>

\* !text || text.trim().length === 0
isBlank(txt) == txt = <<>> \/ Len(trim(txt)) = 0

\* lexicon.find((entry) => entry.term.toLowerCase() === matchedTerm): the
\* index of the first such entry, 0 for undefined.
RECURSIVE findEntryFrom(_, _, _)
findEntryFrom(lexicon, matchedTerm, k) ==
  IF k > Len(lexicon) THEN 0
  ELSE IF toLowerCase(lexicon[k].term.val) = matchedTerm THEN k
  ELSE findEntryFrom(lexicon, matchedTerm, k + 1)

\* findEntry that takes the last such entry.
findEntryLast(lexicon, matchedTerm) ==
  LET found == {k \in DOMAIN lexicon : toLowerCase(lexicon[k].term.val) = matchedTerm}
  IN  IF found = {} THEN 0 ELSE CHOOSE k \in found : \A j \in found : j <= k

findEntry(lexicon, matchedTerm) == findEntryFrom(lexicon, matchedTerm, 1)

\* "Add text before the match": the non-filler segment between lastIndex and
\* the match, if any.
beforeSegments(txt, lastIndex, match) ==
  LET beforeText == slice(txt, lastIndex, match.index)
  IN  IF match.index > lastIndex /\ beforeText # <<>>
      THEN <<Segment(beforeText, FALSE, Null)>>
      ELSE <<>>

\* "Add the filler word": the segment of the match, with
\* lexiconEntry?.category || null.
fillerSegment(lexicon, match) ==
  LET k == findEntry(lexicon, toLowerCase(match.matched))
  IN  Segment(match.matched, TRUE, IF k = 0 THEN Null ELSE lexicon[k].category)

\* The while loop of getHighlightedTranscript: one iteration per match;
\* lastIndex = regex.lastIndex is the end of the match.
RECURSIVE scanLoop(_, _, _, _, _)
scanLoop(regex, lexicon, txt, lastIndex, segs) ==
  LET match == exec(regex, txt, lastIndex)
  IN  IF ~match.found THEN [segments |-> segs, lastIndex |-> lastIndex]
      ELSE scanLoop(regex, lexicon, txt, match.index + Len(match.matched),
                    segs \o beforeSegments(txt, lastIndex, match)
                         \o <<fillerSegment(lexicon, match)>>)

\* remainingSegments with the slice taken one character late.
remainingSegmentsOffByOne(txt, lastIndex) ==
  LET remainingText == slice(txt, lastIndex + 1, Len(txt))
  IN  IF lastIndex < Len(txt) /\ remainingText # <<>>
      THEN <<Segment(remainingText, FALSE, Null)>>
      ELSE <<>>

\* remainingSegments that pushes the remaining text trimmed.
remainingSegmentsTrimmed(txt, lastIndex) ==
  LET remainingText == trim(slice(txt, lastIndex, Len(txt)))
  IN  IF lastIndex < Len(txt) /\ remainingText # <<>>
      THEN <<Segment(remainingText, FALSE, Null)>>
      ELSE <<>>

\* "Add remaining text after the last match".
remainingSegments(txt, lastIndex) ==
  LET remainingText == slice(txt, lastIndex, Len(txt))
  IN  IF lastIndex < Len(txt) /\ remainingText # <<>>
      THEN <<Segment(remainingText, FALSE, Null)>>
      ELSE <<>>

\* The early return of getHighlightedTranscript for a blank text.
blankSegments ==
  [segments |-> <<Segment(<<>>, FALSE, Null)>>, logged |-> {}, threw |-> FALSE]

\* The try block of getHighlightedTranscript: threw when a step raised.
tryHighlight(txt, lang) ==
  IF isBlank(txt) THEN blankSegments
  ELSE
    LET lexicon == getLexiconForLanguage(lang)
        regex == createRegexFromLexicon(lexicon.val, lang)
        scan == scanLoop(regex.val, lexicon.val, txt, 0, <<>>)
        found == scan.segments \o remainingSegments(txt, scan.lastIndex)
    IN  IF lexicon.threw \/ regex.threw
        THEN [segments |-> <<>>, logged |-> {}, threw |-> TRUE]
        ELSE [segments |-> IF Len(found) = 0
                           THEN <<Segment(txt, FALSE, Null)>>
                           ELSE found,
              logged |-> IF regex.warned THEN {"warn:nolexicon"} ELSE {},
              threw |-> FALSE]

\* highlightFallback that logs and rethrows.
highlightFallbackRethrow(txt) ==
  [segments |-> <<>>, logged |-> {"error:highlight"}, threw |-> TRUE]

\* The catch block of getHighlightedTranscript.
highlightFallback(txt) ==
  [segments |-> <<Segment(txt, FALSE, Null)>>,
   logged |-> {"error:highlight"},
   threw |-> FALSE]

\* getHighlightedTranscript(text, language): the segments returned, what was
\* logged, and whether an exception reached the caller.
getHighlightedTranscript(txt, lang) ==
  LET r == tryHighlight(txt, lang)
  IN  IF r.threw THEN highlightFallback(txt) ELSE r

----------------------------------------------------------------------------
\* text.match(regex): every match for a regex with the g flag, else the
\* first one; <<>> stands for null.
RECURSIVE matchAllFrom(_, _, _, _)
matchAllFrom(regex, txt, lastIndex, acc) ==
  LET m == exec(regex, txt, lastIndex)
  IN  IF ~m.found THEN acc
      ELSE matchAllFrom(regex, txt, m.index + Len(m.matched), Append(acc, m.matched))

\* match as for a regex built without the g flag: the first match only.
matchFirstOnly(txt, regex) ==
  LET m == exec(regex, txt, 0)
  IN  IF m.found THEN <<m.matched>> ELSE <<>>

match(txt, regex) ==
  IF regex.global THEN matchAllFrom(regex, txt, 0, <<>>)
  ELSE LET m == exec(regex, txt, 0)
       IN  IF m.found THEN <<m.matched>> ELSE <<>>

\* The forEach of getSessionAnalysis: counts each match under its entry's
\* category; a match with no entry is skipped.
RECURSIVE countCategories(_, _, _, _)
countCategories(lexicon, matches, k, counts) ==
  IF k > Len(matches) THEN counts
  ELSE LET e == findEntry(lexicon, toLowerCase(matches[k]))
       IN  IF e = 0 THEN countCategories(lexicon, matches, k + 1, counts)
           ELSE LET category == lexicon[e].category
                    old == IF category \in DOMAIN counts THEN counts[category] ELSE 0
                IN  countCategories(lexicon, matches, k + 1,
                      [c \in DOMAIN counts \cup {category} |->
                         IF c = category THEN old + 1 ELSE counts[c]])

EmptyCounts == [c \in {} |-> 0]

\* IEEE 754 binary64 arithmetic, as the JavaScript Number operators compute it.
\* A positive double is [m |-> <<a2, a1, a0>>, e |-> E]: the 53-bit significand
\* a2 * 2^36 + a1 * 2^18 + a0 (2^16 <= a2 < 2^17) times 2^E.
Limb == 2^18

\* Round to nearest, ties to even: the significand plus one when up.
roundSignificand(m, e, up) ==
  IF ~up THEN [m |-> m, e |-> e]
  ELSE IF m[3] + 1 < Limb THEN [m |-> <<m[1], m[2], m[3] + 1>>, e |-> e]
  ELSE IF m[2] + 1 < Limb THEN [m |-> <<m[1], m[2] + 1, 0>>, e |-> e]
  ELSE IF m[1] + 1 < 2^17 THEN [m |-> <<m[1] + 1, 0, 0>>, e |-> e]
  ELSE [m |-> <<2^16, 0, 0>>, e |-> e + 1]

\* c, w and s with c / w in [1, 2) and the original quotient = (c / w) * 2^-s.
RECURSIVE normalizeQuotient(_, _, _)
normalizeQuotient(c, w, s) ==
  IF c < w THEN normalizeQuotient(2 * c, w, s + 1)
  ELSE IF c >= 2 * w THEN normalizeQuotient(c, 2 * w, s - 1)
  ELSE [c |-> c, w |-> w, s |-> s]

\* c / w for integers 0 < c, w < 2^11: the nearest double.
divide(c, w) ==
  LET n == normalizeQuotient(c, w, 0)
      q2 == (n.c * 2^16) \div n.w
      r2 == (n.c * 2^16) % n.w
      q1 == (r2 * Limb) \div n.w
      r1 == (r2 * Limb) % n.w
      q0 == (r1 * Limb) \div n.w
      r0 == (r1 * Limb) % n.w
  IN  roundSignificand(<<q2, q1, q0>>, -52 - n.s,
                       2 * r0 > n.w \/ (2 * r0 = n.w /\ q0 % 2 = 1))

\* The number of bits by which t exceeds 17 bits.
RECURSIVE excessBits(_)
excessBits(t) == IF t < 2^17 THEN 0 ELSE 1 + excessBits(t \div 2)

\* x * k for a double x and an integer 0 < k <= 128: the nearest double.
multiply(x, k) ==
  LET p0 == x.m[3] * k
      p1 == x.m[2] * k + p0 \div Limb
      t  == x.m[1] * k + p1 \div Limb
      b1 == p1 % Limb
      b0 == p0 % Limb
      d  == excessBits(t)
      D  == 2^d
      n2 == t \div D
      n1 == (t % D) * (Limb \div D) + b1 \div D
      n0 == (b1 % D) * (Limb \div D) + b0 \div D
      rem == b0 % D
  IN  IF d = 0 THEN [m |-> <<t, b1, b0>>, e |-> x.e]
      ELSE roundSignificand(<<n2, n1, n0>>, x.e + d,
                            2 * rem > D \/ (2 * rem = D /\ n0 % 2 = 1))

\* Math.round(x) for a double 0 < x < 2^30: the nearest integer, a half
\* rounding up.
mathRound(x) ==
  LET n == -x.e
      twice == IF n - 1 >= 36 THEN x.m[1] \div 2^(n - 37)
               ELSE x.m[1] * 2^(37 - n) + x.m[2] \div 2^(n - 19)
  IN  IF n >= 54 THEN 0
      ELSE IF n = 53 THEN 1
      ELSE (twice + 1) \div 2

\* Math.round((num / den) * factor * 10) for integers num >= 0, den > 0: the
\* rounded value in tenths.
roundedTenths(num, den, factor) ==
  IF num = 0 THEN 0
  ELSE LET quotient == divide(num, den)
           scaled == IF factor = 1 THEN quotient ELSE multiply(quotient, factor)
       IN  mathRound(multiply(scaled, 10))

\* totalWordCount > 0 ? (totalFillerCount / totalWordCount) * 100 : 0, then
\* Math.round(fillerDensityPercent * 10) / 10, in tenths.
fillerDensityPercent(totalFillerCount, totalWordCount) ==
  IF totalWordCount > 0 THEN roundedTenths(totalFillerCount, totalWordCount, 100) ELSE 0

\* fillersPerMinute that returns the count itself when there is no duration.
fillersPerMinuteUnguarded(totalFillerCount, dur) ==
  IF dur > 0 THEN roundedTenths(totalFillerCount, dur, 1) ELSE 10 * totalFillerCount

\* duration > 0 ? totalFillerCount / duration : 0, then
\* Math.round(fillersPerMinute * 10) / 10, in tenths.
fillersPerMinute(totalFillerCount, dur) ==
  IF dur > 0 THEN roundedTenths(totalFillerCount, dur, 1) ELSE 0

AnalysisResult(words, fillers, density, perMinute, counts) ==
  [totalWordCount |-> words, totalFillerCount |-> fillers,
   fillerDensityPercent |-> density, fillersPerMinute |-> perMinute,
   categoryCounts |-> counts]

\* blankAnalysis with the zero-filled categories of the catch block.
blankAnalysisZeroFilled ==
  [result |-> AnalysisResult(0, 0, 0, 0,
                [c \in {"FILLED_PAUSE", "DISCOURSE_MARKER", "PLACATING_TAG"} |-> 0]),
   logged |-> {}, threw |-> FALSE]

\* The early return of getSessionAnalysis for a blank text.
blankAnalysis ==
  [result |-> AnalysisResult(0, 0, 0, 0, EmptyCounts), logged |-> {}, threw |-> FALSE]

NoAnalysis == AnalysisResult(-1, -1, -1, -1, EmptyCounts)

\* The try block of getSessionAnalysis: threw when a step raised.
tryAnalysis(txt, dur, lang) ==
  IF isBlank(txt) THEN blankAnalysis
  ELSE
    LET lexicon == getLexiconForLanguage(lang)
        regex == createRegexFromLexicon(lexicon.val, lang)
        words == SelectSeq(splitWhitespace(trim(txt)), LAMBDA word : Len(word) > 0)
        totalWordCount == Len(words)
        matches == match(txt, regex.val)
        totalFillerCount == Len(matches)
    IN  IF lexicon.threw \/ regex.threw
        THEN [result |-> NoAnalysis, logged |-> {}, threw |-> TRUE]
        ELSE [result |-> AnalysisResult(totalWordCount, totalFillerCount,
                           fillerDensityPercent(totalFillerCount, totalWordCount),
                           fillersPerMinute(totalFillerCount, dur),
                           countCategories(lexicon.val, matches, 1, EmptyCounts)),
              logged |-> IF regex.warned THEN {"warn:nolexicon"} ELSE {},
              threw |-> FALSE]

\* analysisFallback that logs and rethrows.
analysisFallbackRethrow ==
  [result |-> NoAnalysis, logged |-> {"error:analysis"}, threw |-> TRUE]

\* The catch block of getSessionAnalysis.
analysisFallback ==
  [result |-> AnalysisResult(0, 0, 0, 0,
                [c \in {"FILLED_PAUSE", "DISCOURSE_MARKER", "PLACATING_TAG"} |-> 0]),
   logged |-> {"error:analysis"},
   threw |-> FALSE]

\* getSessionAnalysis(text, duration, language): the result returned, what
\* was logged, and whether an exception reached the caller.
getSessionAnalysis(txt, dur, lang) ==
  LET r == tryAnalysis(txt, dur, lang)
  IN  IF r.threw THEN analysisFallback ELSE r

----------------------------------------------------------------------------
----------------------------------------------------------------------------
\* useAppStore: the global application state and its actions.

\* user: User | null.  NullUser stands for null.
NullUser == [id |-> "null", isAnonymous |-> FALSE]

\* The user of the development mode, signed in anonymously.
MockUser == [id |-> "demo-user-dev", isAnonymous |-> TRUE]

Users == {MockUser}

\* PracticeSession values: two of them share an id.
PracticeSession(id, transcript) ==
  [id |-> id, transcript |-> transcript,
   analysis |-> AnalysisResult(2, 1, 500, 7, EmptyCounts),
   createdAt |-> "2025-10-24T12:00:00Z", duration |-> 90]

SessionIds == {"session-1", "session-2", "non-existent-id"}

Sessions ==
  { PracticeSession("session-1", "So, um, hello"),
    PracticeSession("session-1", "Updated transcript"),
    PracticeSession("session-2", "Updated transcript") }

SettingsKeys == {"highlightFillers", "showCategories", "goalFillersPerMinute"}

\* AppState['settings']
Settings ==
  [highlightFillers : BOOLEAN, showCategories : BOOLEAN,
   goalFillersPerMinute : {3, 5}]

initialState ==
  [user |-> NullUser,
   isAuthenticated |-> FALSE,
   isRecording |-> FALSE,
   currentTranscript |-> "",
   currentAnalysis |-> NoAnalysis,
   sessions |-> <<>>,
   isLoading |-> FALSE,
   error |-> Null,
   settings |-> [highlightFillers |-> TRUE, showCategories |-> TRUE,
                 goalFillersPerMinute |-> 3]]

\* Partial<AppState['settings']>: any subset of the keys, each key with its
\* default or with the other value.
PartialSettings ==
  { [k \in keys |-> settings[k]] :
      settings \in {s \in Settings :
                      \/ s = initialState.settings
                      \/ \A k \in SettingsKeys : s[k] # initialState.settings[k]},
      keys \in SUBSET SettingsKeys }

\* { ...old, ...new }
spread(old, new) ==
  [k \in DOMAIN old \cup DOMAIN new |-> IF k \in DOMAIN new THEN new[k] ELSE old[k]]

\* set(partial): the fields of partial replace those of the state.
set(state, partial) ==
  [k \in DOMAIN state |-> IF k \in DOMAIN partial THEN partial[k] ELSE state[k]]

\* setUser that leaves isAuthenticated as it is.
setUserOnly(state, user) == set(state, [user |-> user])

setUser(state, user) ==
  set(state, [user |-> user, isAuthenticated |-> user # NullUser])

setAuthenticated(state, isAuthenticated) ==
  set(state, [isAuthenticated |-> isAuthenticated])

setRecording(state, isRecording) == set(state, [isRecording |-> isRecording])

setTranscript(state, currentTranscript) ==
  set(state, [currentTranscript |-> currentTranscript])

setAnalysis(state, currentAnalysis) ==
  set(state, [currentAnalysis |-> currentAnalysis])

setLoading(state, isLoading) == set(state, [isLoading |-> isLoading])

setError(state, error) == set(state, [error |-> error])

\* addSession that pushes the session at the end.
addSessionLast(state, session) ==
  set(state, [sessions |-> Append(state.sessions, session)])

addSession(state, session) ==
  set(state, [sessions |-> <<session>> \o state.sessions])

\* { ...session, ...updates } for the sessions with the id.
updateSession(state, sessionId, updates) ==
  set(state, [sessions |->
    [i \in DOMAIN state.sessions |->
       IF state.sessions[i].id = sessionId
         THEN spread(state.sessions[i], updates)
         ELSE state.sessions[i]]])

\* deleteSession that removes the first session with the id only.
deleteSessionFirst(state, sessionId) ==
  LET hits == {i \in DOMAIN state.sessions : state.sessions[i].id = sessionId}
      first == CHOOSE i \in hits : \A j \in hits : i <= j
  IN  IF hits = {} THEN state
      ELSE set(state, [sessions |->
             SubSeq(state.sessions, 1, first - 1)
               \o SubSeq(state.sessions, first + 1, Len(state.sessions))])

deleteSession(state, sessionId) ==
  set(state, [sessions |->
                SelectSeq(state.sessions, LAMBDA session : session.id # sessionId)])

\* updateSettings that replaces the settings by the partial.
updateSettingsReplace(state, settings) ==
  set(state, [settings |-> spread(initialState.settings, settings)])

updateSettings(state, settings) ==
  set(state, [settings |-> spread(state.settings, settings)])

resetSettings(state) == set(state, [settings |-> initialState.settings])

\* The application outside the analyzer, before anything is called.
\* The dependencies of the effect of useAuth that change: the user object
\* (by identity, 0 for null) and the isAuthenticated flag.
Deps(userRef, storeAuthState) ==
  [userRef |-> userRef, storeAuthState |-> storeAuthState]

\* No effect has run yet.
NoDeps == Deps(-1, FALSE)

AuthEnvs == {"DEV", "PROD"}

\* useAuth before its component mounts.
AuthUnmounted(env) ==
  [env |-> env,
   mounted |-> FALSE,
   userRef |-> 0,
   rendered |-> Deps(0, FALSE),
   effectDeps |-> NoDeps,
   renderPending |-> FALSE,
   effectPending |-> FALSE,
   initPending |-> 0,
   subscribed |-> FALSE,
   delivered |-> 0]

\* useSpeechRecognition after its first render, in a browser that has the
\* recognition constructor (supported) and navigator.mediaDevices or not.
\* engine is the state of the recognition object; lastLifecycle, restarted,
\* finals and latestInterim record what happened, for the properties.
SpeechMounted(supported, mediaDevices) ==
  [supported |-> supported,
   mediaDevices |-> mediaDevices,
   recognition |-> FALSE,
   engine |-> "idle",
   pending |-> <<>>,
   transcript |-> <<>>,
   interimTranscript |-> <<>>,
   isListening |-> FALSE,
   error |-> Null,
   lastLifecycle |-> "none",
   restarted |-> FALSE,
   finals |-> <<>>,
   latestInterim |-> <<>>]

AppIdle ==
  /\ store = initialState
  /\ auth = AuthUnmounted("DEV")
  /\ speech = SpeechMounted(TRUE, TRUE)

----------------------------------------------------------------------------
\* What a call leaves in the imported lexicon.
\* A filter that removes the unselected entries from the array it is called on.
filterInPlace(lexicon, lang) ==
  IF \E i \in DOMAIN lexicon : EntrySelected(lexicon[i], lang) = "throw"
  THEN lexicon
  ELSE SelectSeq(lexicon, LAMBDA e : EntrySelected(e, lang) = "true")

\* lexiconData.filter(...) builds a new array: the array it is called on and
\* its entries stay as they are.
lexiconAfterFilter(lexicon, lang) == lexicon

\* term with a backslash before each character that replace escapes.
RECURSIVE escapedString(_)
escapedString(term) ==
  IF term = <<>> THEN <<>>
  ELSE (IF Head(term) \in RegexSpecial THEN <<"\\", Head(term)>> ELSE <<Head(term)>>)
         \o escapedString(Tail(term))

\* A pattern construction that stores each escaped term back into its entry.
escapeInPlace(lexicon, lang) ==
  IF \E i \in DOMAIN lexicon :
       \/ EntrySelected(lexicon[i], lang) = "throw"
       \/ EntrySelected(lexicon[i], lang) = "true" /\ lexicon[i].term.type # "string"
  THEN lexicon
  ELSE [i \in DOMAIN lexicon |->
          IF EntrySelected(lexicon[i], lang) = "true"
          THEN [lexicon[i] EXCEPT !.term = Str(escapedString(lexicon[i].term.val))]
          ELSE lexicon[i]]

\* lexicon.map((entry) => entry.term.replace(...)) builds new strings: the
\* entries keep their terms.
lexiconAfterRegex(lexicon, lang) == lexicon

\* The imported lexicon after a call of either entry point: a blank text
\* returns before the lexicon is read.
lexiconAfterCall(txt, lang) ==
  IF isBlank(txt) THEN lexiconData
  ELSE lexiconAfterRegex(lexiconAfterFilter(lexiconData, lang), lang)

NoReference == [lexicon |-> <<>>, segments |-> <<>>, analysis |-> NoAnalysis]

Init ==
  /\ lexiconData \in Lexicons
  /\ text \in Texts
  /\ language \in Locales
  /\ duration = 0
  /\ segments = <<>>
  /\ analysis = NoAnalysis
  /\ logged = {}
  /\ thrown = {}
  /\ calls = <<>>
  /\ reference = NoReference
  /\ AppIdle

\* A caller renders the transcript: segments = getHighlightedTranscript(...).
GetHighlightedTranscript ==
  /\ segments = <<>>
  /\ "highlight" \notin thrown
  /\ \E r \in {getHighlightedTranscript(text, language)} :
         /\ segments' = IF r.threw THEN <<>> ELSE r.segments
         /\ logged' = logged \cup r.logged
         /\ thrown' = IF r.threw THEN thrown \cup {"highlight"} ELSE thrown
  /\ UNCHANGED <<lexiconData, text, language, duration, analysis, calls, reference, appVars>>

\* A caller reports on the transcript: analysis = getSessionAnalysis(...).
GetSessionAnalysis ==
  /\ analysis = NoAnalysis
  /\ "analysis" \notin thrown
  /\ \E d \in Durations :
       \E r \in {getSessionAnalysis(text, d, language)} :
           /\ duration' = d
           /\ analysis' = IF r.threw THEN NoAnalysis ELSE r.result
           /\ logged' = logged \cup r.logged
           /\ thrown' = IF r.threw THEN thrown \cup {"analysis"} ELSE thrown
  /\ UNCHANGED <<lexiconData, text, language, segments, calls, reference, appVars>>

Next == GetHighlightedTranscript \/ GetSessionAnalysis

Spec == Init /\ [][Next]_vars

----------------------------------------------------------------------------
\* The arithmetic of getSessionAnalysis on its own: the counts of a transcript
\* are drawn, and the density is derived from them.
InitDensity ==
  /\ lexiconData = LexTest
  /\ text = <<>>
  /\ language = enUS
  /\ duration = 0
  /\ segments = <<>>
  /\ \E totalWordCount \in 0..MaxCount, totalFillerCount \in 0..MaxCount :
       analysis = AnalysisResult(totalWordCount, totalFillerCount, -1, 0, EmptyCounts)
  /\ logged = {}
  /\ thrown = {}
  /\ calls = <<>>
  /\ reference = NoReference
  /\ AppIdle

ComputeDensity ==
  /\ analysis.fillerDensityPercent = -1
  /\ analysis' = [analysis EXCEPT !.fillerDensityPercent =
                    fillerDensityPercent(analysis.totalFillerCount,
                                         analysis.totalWordCount)]
  /\ UNCHANGED <<lexiconData, text, language, duration, segments, logged, thrown,
                 calls, reference, appVars>>

NextDensity == ComputeDensity

SpecDensity == InitDensity /\ [][NextDensity]_vars

----------------------------------------------------------------------------
\* Sequences of calls on one imported lexicon: the call with the arguments
\* text, language and duration is repeated among calls with other arguments.
CallTexts ==
  { <<>>, <<" ">>, <<"u">>, <<"k">>, <<"u", "?">>, <<"u", " ", "k">>,
    <<"U", " ", "u">>, <<"k", "s2", "k">>, <<"u", "s2", "k">> }

OtherTexts == {<<" ">>, <<"u", "?">>}

InitCalls ==
  /\ lexiconData \in Lexicons
  /\ text \in CallTexts
  /\ language \in Locales
  /\ duration = 1
  /\ segments = <<>>
  /\ analysis = NoAnalysis
  /\ logged = {}
  /\ thrown = {}
  /\ calls = <<>>
  /\ reference = [lexicon |-> lexiconData,
                  segments |-> getHighlightedTranscript(text, language).segments,
                  analysis |-> getSessionAnalysis(text, duration, language).result]
  /\ AppIdle

RepeatHighlight ==
  /\ Len(calls) < MaxCalls
  /\ \E r \in {getHighlightedTranscript(text, language)} :
         /\ segments' = IF r.threw THEN segments ELSE r.segments
         /\ logged' = logged \cup r.logged
         /\ thrown' = IF r.threw THEN thrown \cup {"highlight"} ELSE thrown
  /\ lexiconData' = lexiconAfterCall(text, language)
  /\ calls' = Append(calls, "highlight")
  /\ UNCHANGED <<text, language, duration, analysis, reference, appVars>>

RepeatAnalysis ==
  /\ Len(calls) < MaxCalls
  /\ \E r \in {getSessionAnalysis(text, duration, language)} :
         /\ analysis' = IF r.threw THEN analysis ELSE r.result
         /\ logged' = logged \cup r.logged
         /\ thrown' = IF r.threw THEN thrown \cup {"analysis"} ELSE thrown
  /\ lexiconData' = lexiconAfterCall(text, language)
  /\ calls' = Append(calls, "analysis")
  /\ UNCHANGED <<text, language, duration, segments, reference, appVars>>

\* A call with other arguments, whose result goes to another caller.
OtherHighlight ==
  /\ Len(calls) < MaxCalls
  /\ \E txt \in OtherTexts, lang \in Locales :
       /\ \E r \in {getHighlightedTranscript(txt, lang)} :
              /\ logged' = logged \cup r.logged
              /\ thrown' = IF r.threw THEN thrown \cup {"highlight"} ELSE thrown
       /\ lexiconData' = lexiconAfterCall(txt, lang)
  /\ calls' = Append(calls, "other")
  /\ UNCHANGED <<text, language, duration, segments, analysis, reference, appVars>>

OtherAnalysis ==
  /\ Len(calls) < MaxCalls
  /\ \E txt \in OtherTexts, lang \in Locales, dur \in {0, duration} :
       /\ \E r \in {getSessionAnalysis(txt, dur, lang)} :
              /\ logged' = logged \cup r.logged
              /\ thrown' = IF r.threw THEN thrown \cup {"analysis"} ELSE thrown
       /\ lexiconData' = lexiconAfterCall(txt, lang)
  /\ calls' = Append(calls, "other")
  /\ UNCHANGED <<text, language, duration, segments, analysis, reference, appVars>>

NextCalls == RepeatHighlight \/ RepeatAnalysis \/ OtherHighlight \/ OtherAnalysis

SpecCalls == InitCalls /\ [][NextCalls]_vars

----------------------------------------------------------------------------
\* The store on its own: any sequence of its actions, with any arguments.

Transcripts == {"", "Hello, um, world"}

\* The analyzer is not running while the store is exercised.
AnalyzerIdle ==
  /\ lexiconData = LexTest
  /\ text = <<>>
  /\ language = enUS
  /\ duration = 0
  /\ segments = <<>>
  /\ analysis = NoAnalysis
  /\ logged = {}
  /\ thrown = {}
  /\ calls = <<>>
  /\ reference = NoReference

InitStore ==
  /\ AnalyzerIdle
  /\ AppIdle

----------------------------------------------------------------------------
\* useAuth with Firebase Auth not initialized (getFirebaseAuth() is null).

Refs == 1..MaxRefs

\* A new object: an identity that no object still referred to has.
newRef ==
  CHOOSE r \in Refs :
    /\ r \notin {auth.userRef, auth.rendered.userRef, auth.effectDeps.userRef}
    /\ \A q \in Refs :
         q \notin {auth.userRef, auth.rendered.userRef, auth.effectDeps.userRef}
           => r <= q

\* The callback useAuth passes to onAuthStateChange, and the end of
\* initializeAuth: setUser(authUser) and setAuthenticated(!!authUser).
authCallback(state, authUser) ==
  setAuthenticated(setUser(state, authUser), authUser # NullUser)

\* onAuthStateChange without auth: the callback is called once, at once, with
\* a new mock user object in development and with null otherwise.
onAuthStateChange(env) ==
  IF env = "DEV"
  THEN [user |-> MockUser, ref |-> newRef, calls |-> 1]
  ELSE [user |-> NullUser, ref |-> 0, calls |-> 1]

InitAuth ==
  /\ AnalyzerIdle
  /\ store = initialState
  /\ speech = SpeechMounted(TRUE, TRUE)
  /\ \E env \in AuthEnvs : auth = AuthUnmounted(env)

\* The component mounts: the first render reads the store, and the effect is
\* due.
Mount ==
  /\ ~auth.mounted
  /\ auth' = [auth EXCEPT !.mounted = TRUE,
                          !.rendered = Deps(auth.userRef, store.isAuthenticated),
                          !.renderPending = FALSE,
                          !.effectPending = TRUE]
  /\ UNCHANGED <<analyzerVars, store, speech>>

\* The store changed: the component renders again, and the effect is due
\* when one of its dependencies is not the one of its last run.
Render ==
  /\ auth.mounted
  /\ auth.renderPending
  /\ ~auth.effectPending
  /\ LET deps == Deps(auth.userRef, store.isAuthenticated)
     IN  auth' = [auth EXCEPT !.rendered = deps,
                             !.renderPending = FALSE,
                             !.effectPending = deps # auth.effectDeps]
  /\ UNCHANGED <<analyzerVars, store, speech>>

\* The effect: the old listener is cleaned up, onAuthStateChange subscribes
\* and calls back, and initializeAuth starts when the render saw no user.
RunEffect ==
  /\ auth.mounted
  /\ auth.effectPending
  /\ LET event == onAuthStateChange(auth.env)
         starts == ~auth.rendered.storeAuthState \/ auth.rendered.userRef = 0
     IN  /\ store' = authCallback(store, event.user)
         /\ auth' = [auth EXCEPT !.userRef = event.ref,
                                 !.effectDeps = auth.rendered,
                                 !.effectPending = FALSE,
                                 !.renderPending = TRUE,
                                 !.subscribed = TRUE,
                                 !.delivered = event.calls,
                                 !.initPending = @ + (IF starts THEN 1 ELSE 0)]
  /\ UNCHANGED <<analyzerVars, speech>>

\* initializeAuth after its await: isAuthenticated() was false, and
\* signInAnonymouslyUser() resolved to a new mock user object.
ResumeInitializeAuth ==
  /\ auth.initPending > 0
  /\ store' = authCallback(store, MockUser)
  /\ auth' = [auth EXCEPT !.userRef = newRef,
                          !.initPending = @ - 1,
                          !.renderPending = TRUE]
  /\ UNCHANGED <<analyzerVars, speech>>

\* Another component updates the store: useAppStore() renders again on any
\* change of the store.
OtherStoreUpdate ==
  /\ auth.mounted
  /\ \/ \E isRecording \in BOOLEAN : store' = setRecording(store, isRecording)
     \/ \E transcript \in Transcripts : store' = setTranscript(store, transcript)
     \/ \E isLoading \in BOOLEAN : store' = setLoading(store, isLoading)
  /\ auth' = [auth EXCEPT !.renderPending = TRUE]
  /\ UNCHANGED <<analyzerVars, speech>>

NextAuth ==
  \/ Mount
  \/ Render
  \/ RunEffect
  \/ ResumeInitializeAuth
  \/ OtherStoreUpdate

\* React runs a due render and a due effect, and the microtask queue resumes
\* an awaiting function.
SpecAuth ==
  /\ InitAuth
  /\ [][NextAuth]_vars
  /\ WF_vars(Mount)
  /\ WF_vars(Render)
  /\ WF_vars(RunEffect)
  /\ WF_vars(ResumeInitializeAuth)

\* A call of a store action replaces the state of the store.
StoreCall(state) ==
  /\ store' = state
  /\ UNCHANGED <<analyzerVars, hookVars>>

SetUser == \E user \in Users \cup {NullUser} : StoreCall(setUser(store, user))

SetAuthenticated ==
  \E isAuthenticated \in BOOLEAN :
    StoreCall(setAuthenticated(store, isAuthenticated))

SetRecording ==
  \E isRecording \in BOOLEAN : StoreCall(setRecording(store, isRecording))

SetTranscript ==
  \E transcript \in Transcripts : StoreCall(setTranscript(store, transcript))

SetAnalysis ==
  \E result \in {NoAnalysis, AnalysisResult(10, 1, 100, 6, EmptyCounts)} :
    StoreCall(setAnalysis(store, result))

AddSession ==
  /\ Len(store.sessions) < MaxSessions
  /\ \E session \in Sessions : StoreCall(addSession(store, session))

UpdateSession ==
  \E sessionId \in SessionIds, updates \in {[transcript |-> "Updated transcript"]} :
    StoreCall(updateSession(store, sessionId, updates))

DeleteSession ==
  \E sessionId \in SessionIds : StoreCall(deleteSession(store, sessionId))

SetLoading == \E isLoading \in BOOLEAN : StoreCall(setLoading(store, isLoading))

SetError == \E error \in {Null, "Test error"} : StoreCall(setError(store, error))

UpdateSettings ==
  \E settings \in PartialSettings : StoreCall(updateSettings(store, settings))

ResetSettings == StoreCall(resetSettings(store))

NextStore ==
  \/ SetUser
  \/ SetAuthenticated
  \/ SetRecording
  \/ SetTranscript
  \/ SetAnalysis
  \/ AddSession
  \/ UpdateSession
  \/ DeleteSession
  \/ SetLoading
  \/ SetError
  \/ UpdateSettings
  \/ ResetSettings

SpecStore == InitStore /\ [][NextStore]_vars

----------------------------------------------------------------------------
\* Properties.

highlighted == segments # <<>>
analysed == analysis # NoAnalysis

\* Every character of t is white space (the empty text included).
WhitespaceOnly(t) == \A i \in DOMAIN t : IsWhiteSpace(t[i])

RECURSIVE concatSegments(_)
concatSegments(segs) ==
  IF segs = <<>> THEN <<>> ELSE Head(segs).text \o concatSegments(Tail(segs))

fillerSegmentCount(segs) == Cardinality({i \in DOMAIN segs : segs[i].isFiller})

RECURSIVE sumCounts(_)
sumCounts(counts) ==
  IF DOMAIN counts = {} THEN 0
  ELSE LET c == CHOOSE x \in DOMAIN counts : TRUE
       IN  counts[c] + sumCounts([x \in DOMAIN counts \ {c} |-> counts[x]])

\* A step of the try block raises for the current lexicon and locale.
stepFails ==
  \E lexicon \in {getLexiconForLanguage(language)} :
    lexicon.threw \/ createRegexFromLexicon(lexicon.val, language).threw

\* C1 as stated: for every text of length > 0, the segment texts of
\* getHighlightedTranscript concatenate to the text.
C1_LosslessNonEmpty ==
  (highlighted /\ Len(text) > 0) => concatSegments(segments) = text

\* C1 amended: for every text with at least one non-whitespace character, the
\* segment texts of getHighlightedTranscript concatenate to the text.
C1_LosslessPartition ==
  (highlighted /\ ~WhitespaceOnly(text)) => concatSegments(segments) = text

C1_Witness ==
  /\ Len(segments) = 3
  /\ segments[2].isFiller
  /\ concatSegments(segments) = text

\* C2: getLexiconForLanguage selects a well-formed entry iff one of its tags T
\* has T = L, or T starts with L + "-", or L starts with T + "-".
localeSelects(entry, lang) ==
  \E i \in DOMAIN entry.bcp47Tags.val :
    LET tag == entry.bcp47Tags.val[i]
    IN  \/ tag = lang
        \/ startsWith(tag, lang \o <<"-">>)
        \/ startsWith(lang, tag \o <<"-">>)

wellFormed(entry) ==
  /\ entry.term.type = "string"
  /\ entry.term.val # <<>>
  /\ entry.bcp47Tags.type = "array"

C2_BidirectionalSelection ==
  LET selected == getLexiconForLanguage(language)
  IN  (highlighted /\ ~selected.threw)
        => \A i \in DOMAIN lexiconData :
             wellFormed(lexiconData[i])
               => ((\E k \in DOMAIN selected.val : selected.val[k] = lexiconData[i])
                     <=> localeSelects(lexiconData[i], language))

\* C3: totalFillerCount of getSessionAnalysis equals the number of filler
\* segments of getHighlightedTranscript for the same text and locale.
C3_FillerCountConsistent ==
  (highlighted /\ analysed)
    => analysis.totalFillerCount = fillerSegmentCount(segments)

C3_Witness ==
  /\ highlighted
  /\ analysed
  /\ analysis.totalFillerCount = 2
  /\ fillerSegmentCount(segments) = 2

\* C4: the values of categoryCounts sum to totalFillerCount.
C4_CategorySum ==
  analysed => sumCounts(analysis.categoryCounts) = analysis.totalFillerCount

\* C5: categoryCounts has no key with value 0, on every path.
C5_NoZeroCounts ==
  analysed => \A c \in DOMAIN analysis.categoryCounts : analysis.categoryCounts[c] > 0

\* C6: getHighlightedTranscript never lets an exception reach its caller, and
\* when a step fails it returns the whole input as one non-filler segment.
C6_HighlightNeverThrows ==
  /\ "highlight" \notin thrown
  /\ (highlighted /\ ~WhitespaceOnly(text) /\ stepFails)
       => segments = <<Segment(text, FALSE, Null)>>

C6_Witness ==
  /\ highlighted
  /\ stepFails
  /\ Len(text) = 3
  /\ "error:highlight" \in logged

\* C7: getSessionAnalysis never lets an exception reach its caller, and when a
\* step fails the four numbers of its result are 0.
C7_AnalysisNeverThrows ==
  /\ "analysis" \notin thrown
  /\ (analysed /\ ~WhitespaceOnly(text) /\ stepFails)
       => /\ analysis.totalWordCount = 0
          /\ analysis.totalFillerCount = 0
          /\ analysis.fillerDensityPercent = 0
          /\ analysis.fillersPerMinute = 0

C7_Witness ==
  /\ analysed
  /\ stepFails
  /\ Len(text) = 3
  /\ duration = 1
  /\ "error:analysis" \in logged

\* C8: for an empty or whitespace-only text getHighlightedTranscript returns
\* the single segment {text: "", isFiller: false, category: null}.
C8_BlankHighlight ==
  (highlighted /\ WhitespaceOnly(text))
    => segments = <<Segment(<<>>, FALSE, Null)>>

C8_Witness ==
  /\ highlighted
  /\ text = <<" ", " ">>

\* C9: for an empty or whitespace-only text getSessionAnalysis returns all-zero
\* counts and an empty categoryCounts, and logs no error.
C9_BlankAnalysis ==
  (analysed /\ WhitespaceOnly(text))
    => /\ analysis = AnalysisResult(0, 0, 0, 0, EmptyCounts)
       /\ "error:analysis" \notin logged
       /\ "analysis" \notin thrown

C9_Witness ==
  /\ analysed
  /\ text = <<" ", " ">>
  /\ duration = 1
  /\ stepFails

\* C10: with a duration <= 0 fillersPerMinute is 0, and the other fields are
\* those of the same text and locale with any positive duration.
C10_ZeroDuration ==
  (analysed /\ duration <= 0)
    => /\ analysis.fillersPerMinute = 0
       /\ \A d \in Durations :
            d > 0 =>
              \A r \in {getSessionAnalysis(text, d, language).result} :
                  /\ r.totalFillerCount = analysis.totalFillerCount
                  /\ r.totalWordCount = analysis.totalWordCount
                  /\ r.fillerDensityPercent = analysis.fillerDensityPercent
                  /\ r.categoryCounts = analysis.categoryCounts

C10_Witness ==
  /\ analysed
  /\ duration = 0
  /\ analysis.totalFillerCount = 2
  /\ analysis.fillersPerMinute = 0

\* The matcher is built and matches at no position of the text.
noOccurrence ==
  \A lexicon \in {getLexiconForLanguage(language)} :
    \A regex \in {createRegexFromLexicon(lexicon.val, language)} :
      /\ ~lexicon.threw
      /\ ~regex.threw
      /\ \A i \in 0..Len(text) : MatchAt(regex.val, text, i) = -1

\* C11: for a non-blank text in which the matcher of the locale finds no
\* occurrence, getHighlightedTranscript returns the single segment
\* {text, false, null} and getSessionAnalysis returns totalFillerCount = 0.
C11_NoMatch ==
  \/ /\ highlighted => segments = <<Segment(text, FALSE, Null)>>
     /\ analysed => analysis.totalFillerCount = 0
  \/ WhitespaceOnly(text)
  \/ ~noOccurrence

C11_Witness ==
  /\ highlighted
  /\ analysed
  /\ noOccurrence
  /\ text = <<"k", "u", " ">>
  /\ Len(getLexiconForLanguage(language).val) = 2

\* The filter selects no entry of the lexicon for the current locale.
noEntrySelected ==
  \E selected \in {getLexiconForLanguage(language)} :
    ~selected.threw /\ Len(selected.val) = 0

\* C12: when no entry is selected for the locale, building the matcher does
\* not throw, the matcher matches at no position of any text (not even the
\* empty string), and both entry points report no filler.
C12_EmptyLexiconMatcher ==
  noEntrySelected
    => LET regex == createRegexFromLexicon(<<>>, language)
       IN  /\ ~regex.threw
           /\ \A i \in 0..Len(text) : MatchAt(regex.val, text, i) = -1
           /\ thrown = {}
           /\ "error:highlight" \notin logged
           /\ "error:analysis" \notin logged
           /\ highlighted => fillerSegmentCount(segments) = 0
           /\ analysed => /\ analysis.totalFillerCount = 0
                          /\ analysis.categoryCounts = EmptyCounts

C12_Witness ==
  /\ noEntrySelected
  /\ highlighted
  /\ analysed
  /\ lexiconData = LexTest
  /\ text = <<"u", " ", "k">>
  /\ "warn:nolexicon" \in logged

\* One of the entry's tags is the locale itself or the locale followed by
\* "-" and a region.
carriesLocale(entry, lang) ==
  /\ entry.bcp47Tags.type = "array"
  /\ \E i \in DOMAIN entry.bcp47Tags.val :
       LET tag == entry.bcp47Tags.val[i]
       IN  \/ tag = lang
           \/ /\ Len(tag) > Len(lang) + 1
              /\ SubSeq(tag, 1, Len(lang)) = lang
              /\ tag[Len(lang) + 1] = "-"

\* Two strings are equal up to the case folding of the i flag.
sameIgnoringCase(a, b) ==
  /\ Len(a) = Len(b)
  /\ \A i \in DOMAIN a : Canonicalize(a[i]) = Canonicalize(b[i])

\* C13: every entry selected for a locale L carries the tag L or a tag
\* L-region (an entry tagged only with other regions or languages is not
\* selected), and every filler segment reported for L is a term of an entry
\* that carries L.
C13_RegionIsolation ==
  LET selected == getLexiconForLanguage(language)
  IN  /\ ~selected.threw
           => \A k \in DOMAIN selected.val : carriesLocale(selected.val[k], language)
      /\ highlighted
           => \A s \in DOMAIN segments :
                segments[s].isFiller
                  => \E i \in DOMAIN lexiconData :
                       /\ carriesLocale(lexiconData[i], language)
                       /\ lexiconData[i].term.type = "string"
                       /\ sameIgnoringCase(lexiconData[i].term.val, segments[s].text)

C13_Witness ==
  /\ lexiconData = LexTest
  /\ language = enGB
  /\ text = <<"u", " ", "k">>
  /\ segments = <<Segment(<<"u", " ">>, FALSE, Null),
                  Segment(<<"k">>, TRUE, "FILLED_PAUSE")>>

\* An entry with a missing or empty term, or a missing or empty tag list.
malformed(entry) ==
  \/ entry.term = Undefined
  \/ entry.term = Str(<<>>)
  \/ entry.bcp47Tags = Undefined
  \/ entry.bcp47Tags = Arr(<<>>)

\* The lexicon with its malformed entries removed, in lexicon order.
withoutMalformed == SelectSeq(lexiconData, LAMBDA e : ~malformed(e))

\* C14: a malformed entry is selected for no locale and raises no error, and
\* the selection from the lexicon is the selection from the lexicon without
\* its malformed entries, in the same order.
C14_MalformedIgnored ==
  \A clean \in {withoutMalformed}, selected \in {getLexiconForLanguage(language)} :
    \A raises \in {\E i \in DOMAIN clean :
                     EntrySelected(clean[i], language) = "throw"} :
      /\ \A i \in DOMAIN lexiconData :
           malformed(lexiconData[i])
             => \A lang \in Locales : EntrySelected(lexiconData[i], lang) = "false"
      /\ selected.threw = raises
      /\ ~raises
           => selected.val
                = SelectSeq(clean, LAMBDA e : EntrySelected(e, language) = "true")
      /\ (~raises /\ \A i \in DOMAIN clean : clean[i].term.type = "string")
           => /\ "error:highlight" \notin logged
              /\ "error:analysis" \notin logged

C14_Witness ==
  /\ lexiconData = LexMalformed
  /\ language = en
  /\ text = <<"u", " ", "k">>
  /\ segments = <<Segment(<<"u">>, TRUE, "FILLED_PAUSE"),
                  Segment(<<" ", "k">>, FALSE, Null)>>
  /\ analysed
  /\ logged = {}

\* The number of characters in the segments before segment k.
RECURSIVE lengthBefore(_, _)
lengthBefore(segs, k) ==
  IF k <= 1 THEN 0 ELSE lengthBefore(segs, k - 1) + Len(segs[k - 1].text)

\* Character p of the text (1-based) lies in a filler segment.
fillerCovers(p) ==
  \E k \in DOMAIN segments :
    /\ segments[k].isFiller
    /\ lengthBefore(segments, k) < p
    /\ p <= lengthBefore(segments, k) + Len(segments[k].text)

\* The characters i+1..i+n of the text are delimited on each side by a text
\* boundary or a non-word character.
delimited(i, n) ==
  /\ i = 0 \/ ~IsWordChar(text[i])
  /\ i + n = Len(text) \/ ~IsWordChar(text[i + n + 1])

\* The terms of the entries selected for the current locale.
selectedTerms ==
  LET selected == getLexiconForLanguage(language).val
  IN  {selected[k].term.val : k \in DOMAIN selected}

\* The transcript was highlighted on the normal path.
scanned == highlighted /\ ~WhitespaceOnly(text) /\ ~stepFails

\* C15: every casing variant of a selected term that occurs in the text as a
\* whole word lies in a filler segment, and the text of every filler segment
\* is the substring of the input at its position, in its original casing.
C15_CaseInsensitive ==
  scanned
    => /\ \A term \in selectedTerms :
            \A i \in 0..(Len(text) - Len(term)) :
              (/\ toLowerCase(SubSeq(text, i + 1, i + Len(term))) = toLowerCase(term)
               /\ delimited(i, Len(term)))
                => \A p \in (i + 1)..(i + Len(term)) : fillerCovers(p)
       /\ \A k \in DOMAIN segments :
            segments[k].isFiller
              => segments[k].text
                   = SubSeq(text, lengthBefore(segments, k) + 1,
                            lengthBefore(segments, k) + Len(segments[k].text))

\* C16: every occurrence of a selected term delimited on each side by a text
\* boundary or a non-word character lies in a filler segment, and no filler
\* segment begins or ends inside a word.
C16_WholeWord ==
  scanned
    => /\ \A term \in selectedTerms :
            \A i \in 0..(Len(text) - Len(term)) :
              (/\ sameIgnoringCase(SubSeq(text, i + 1, i + Len(term)), term)
               /\ delimited(i, Len(term)))
                => \A p \in (i + 1)..(i + Len(term)) : fillerCovers(p)
       /\ \A k \in DOMAIN segments :
            LET first == lengthBefore(segments, k) + 1
                last == lengthBefore(segments, k) + Len(segments[k].text)
            IN  segments[k].isFiller
                  => /\ (IsWordChar(text[first]) /\ first > 1)
                          => ~IsWordChar(text[first - 1])
                     /\ (IsWordChar(text[last]) /\ last < Len(text))
                          => ~IsWordChar(text[last + 1])

\* C17: fillerDensityPercent is 100 * totalFillerCount / totalWordCount
\* rounded to one decimal place, a half rounding up (in tenths:
\* floor(1000 * totalFillerCount / totalWordCount + 1/2)), and 0 when
\* totalWordCount is 0.
C17_Density ==
  (analysis # NoAnalysis /\ analysis.fillerDensityPercent # -1)
    => analysis.fillerDensityPercent
         = IF analysis.totalWordCount = 0 THEN 0
           ELSE (2000 * analysis.totalFillerCount + analysis.totalWordCount)
                  \div (2 * analysis.totalWordCount)

\* The number of maximal runs of non-whitespace characters of t.
wordRuns(t) ==
  Cardinality({i \in DOMAIN t :
                 ~IsWhiteSpace(t[i]) /\ (i = 1 \/ IsWhiteSpace(t[i - 1]))})

\* C18 as stated: totalWordCount is the number of maximal runs of
\* non-whitespace characters of the text, whatever the locale, the lexicon
\* and the duration.
C18_WordCount ==
  analysed => analysis.totalWordCount = wordRuns(text)

\* C18 amended: when no step of the analysis fails, totalWordCount is the
\* number of maximal runs of non-whitespace characters of the text, whatever
\* the locale, the lexicon and the duration; when a step fails on a non-blank
\* text it is 0.
C18_WordCountNormalPath ==
  analysed
    => analysis.totalWordCount
         = IF stepFails /\ ~WhitespaceOnly(text) THEN 0 ELSE wordRuns(text)

C18_Witness ==
  /\ analysed
  /\ ~stepFails
  /\ text = <<" ", "u", " ">>
  /\ duration = 1
  /\ analysis.totalWordCount = 1

----------------------------------------------------------------------------
\* useSpeechRecognition.

\* SpeechRecognitionErrorEvent.error
ErrorCodes == {"not-allowed", "no-speech", "audio-capture", "network", "aborted"}

\* A SpeechRecognitionResult: the transcript of its first alternative, and
\* isFinal.
SpeechResult(t, isFinal) == [transcript |-> t, isFinal |-> isFinal]

SpeechResults ==
  {SpeechResult(<<"u">>, TRUE), SpeechResult(<<"k">>, TRUE),
   SpeechResult(<<"u">>, FALSE)}

\* SpeechRecognitionEvent: results, and resultIndex (counted from 0).
SpeechEvents ==
  {[resultIndex |-> i, results |-> r] :
     i \in 0..1, r \in UNION {[1..n -> SpeechResults] : n \in 1..2}}

onstart(s) == [s EXCEPT !.isListening = TRUE, !.error = Null]

onend(s) == [s EXCEPT !.isListening = FALSE]

\* The for loop of onresult from result i (counted from 0): the texts of the
\* final results, and those of the others.
RECURSIVE processResults(_, _, _, _)
processResults(results, i, finalTranscript, interimTranscriptText) ==
  IF i >= Len(results)
  THEN [finalTranscript |-> finalTranscript,
        interimTranscriptText |-> interimTranscriptText]
  ELSE LET result == results[i + 1]
       IN  IF result.isFinal
           THEN processResults(results, i + 1,
                               finalTranscript \o result.transcript,
                               interimTranscriptText)
           ELSE processResults(results, i + 1, finalTranscript,
                               interimTranscriptText \o result.transcript)

\* onresult that appends the text of every result to the transcript.
onresultAll(s, event) ==
  LET r == processResults(event.results, event.resultIndex, <<>>, <<>>)
  IN  [s EXCEPT !.transcript = @ \o r.finalTranscript \o r.interimTranscriptText,
                !.interimTranscript = r.interimTranscriptText]

onresult(s, event) ==
  LET r == processResults(event.results, event.resultIndex, <<>>, <<>>)
  IN  [s EXCEPT !.transcript = IF r.finalTranscript # <<>>
                                THEN @ \o r.finalTranscript ELSE @,
                !.interimTranscript = r.interimTranscriptText]

\* The message onerror leaves for an error code.
errorMessage(code) ==
  CASE code = "not-allowed" -> "Microphone access denied."
    [] code = "no-speech" -> "No speech detected."
    [] code = "audio-capture" -> "No microphone found."
    [] code = "network" -> "Network error occurred."
    [] OTHER -> "Speech recognition error: aborted"

\* onerror that leaves isListening as it is.
onerrorStillListening(s, code) == [s EXCEPT !.error = errorMessage(code)]

onerror(s, code) ==
  [s EXCEPT !.error = errorMessage(code), !.isListening = FALSE]

onnomatch(s) == s

resetTranscript(s) ==
  [s EXCEPT !.transcript = <<>>, !.interimTranscript = <<>>, !.error = Null]

\* initializeRecognition: the recognition object with its handlers, or the
\* error of getSpeechRecognition.
initializeRecognition(s) ==
  IF s.supported
  THEN [s EXCEPT !.recognition = TRUE]
  ELSE [s EXCEPT !.error = "Speech recognition is not supported in this browser"]

\* recognition.start() inside the try of startListening: a recognition that
\* was started and has not ended throws InvalidStateError.
start(s) ==
  IF s.engine = "idle"
  THEN [s EXCEPT !.engine = "starting"]
  ELSE [s EXCEPT !.error = "InvalidStateError",
                 !.restarted = @ \/ s.engine \in {"starting", "active"}]

\* startListening after the permission request: isListening is the value of
\* the render in which startListening was called.
startListeningGranted(s, isListening) ==
  LET s1 == IF ~s.recognition THEN initializeRecognition(s) ELSE s
  IN  IF s1.recognition /\ ~isListening THEN start(s1) ELSE s1

InitSpeech ==
  /\ AnalyzerIdle
  /\ store = initialState
  /\ auth = AuthUnmounted("DEV")
  /\ \E supported \in BOOLEAN, mediaDevices \in BOOLEAN :
       speech = SpeechMounted(supported, mediaDevices)

SpeechStep(s) ==
  /\ speech' = s
  /\ UNCHANGED <<analyzerVars, store, auth>>

\* startListening is called: with navigator.mediaDevices it awaits
\* getUserMedia, without it goes on at once.
StartListening ==
  /\ Len(speech.pending) < MaxPending
  /\ LET s == [speech EXCEPT !.error = Null]
     IN  IF speech.mediaDevices
         THEN SpeechStep([s EXCEPT !.pending = Append(@, speech.isListening)])
         ELSE SpeechStep(startListeningGranted(s, speech.isListening))

\* pending without its i-th call.
without(pending, i) == SubSeq(pending, 1, i - 1) \o SubSeq(pending, i + 1, Len(pending))

\* getUserMedia resolves for one of the waiting calls.
PermissionGranted ==
  \E i \in DOMAIN speech.pending :
    SpeechStep(startListeningGranted([speech EXCEPT !.pending = without(@, i)],
                                     speech.pending[i]))

\* getUserMedia rejects for one of the waiting calls.
PermissionDenied ==
  \E i \in DOMAIN speech.pending :
    SpeechStep([speech EXCEPT
                  !.pending = without(@, i),
                  !.error = "Microphone access is required for speech recognition."])

\* stopListening: stop() when listening; the recognition ends later.
StopListening ==
  SpeechStep(IF speech.recognition /\ speech.isListening
                  /\ speech.engine \in {"starting", "active"}
             THEN [speech EXCEPT !.engine = "stopping"]
             ELSE speech)

ResetTranscript ==
  SpeechStep([resetTranscript(speech) EXCEPT !.finals = <<>>, !.latestInterim = <<>>])

\* The recognition fires start.
OnStart ==
  /\ speech.recognition
  /\ speech.engine = "starting"
  /\ SpeechStep([onstart(speech) EXCEPT !.engine = "active",
                                        !.lastLifecycle = "onstart"])

\* The recognition fires end.
OnEnd ==
  /\ speech.recognition
  /\ speech.engine # "idle"
  /\ SpeechStep([onend(speech) EXCEPT !.engine = "idle", !.lastLifecycle = "onend"])

\* The recognition fires error; end follows.
OnError ==
  /\ speech.recognition
  /\ speech.engine \in {"starting", "active"}
  /\ \E code \in ErrorCodes :
       SpeechStep([onerror(speech, code) EXCEPT !.engine = "stopping",
                                                !.lastLifecycle = "onerror"])

\* The transcripts of a sequence of results, one after the other.
RECURSIVE joined(_)
joined(results) ==
  IF results = <<>> THEN <<>> ELSE Head(results).transcript \o joined(Tail(results))

\* The texts of the results of an event from resultIndex on, final or not.
textsOf(event, isFinal) ==
  joined(SelectSeq(SubSeq(event.results, event.resultIndex + 1, Len(event.results)),
                   LAMBDA result : result.isFinal = isFinal))

\* The recognition fires result.
OnResult ==
  /\ speech.recognition
  /\ speech.engine \in {"active", "stopping"}
  /\ \E event \in SpeechEvents :
       /\ event.resultIndex < Len(event.results)
       /\ Len(speech.finals) + Len(textsOf(event, TRUE)) <= MaxTranscript
       /\ SpeechStep([onresult(speech, event) EXCEPT
                        !.finals = @ \o textsOf(event, TRUE),
                        !.latestInterim = textsOf(event, FALSE)])

\* The recognition fires nomatch.
OnNoMatch ==
  /\ speech.recognition
  /\ speech.engine = "active"
  /\ SpeechStep(onnomatch(speech))

NextSpeech ==
  \/ StartListening
  \/ PermissionGranted
  \/ PermissionDenied
  \/ StopListening
  \/ ResetTranscript
  \/ OnStart
  \/ OnEnd
  \/ OnError
  \/ OnResult
  \/ OnNoMatch

SpecSpeech == InitSpeech /\ [][NextSpeech]_vars

----------------------------------------------------------------------------
\* The store.  Each claim is about what a call of an action leaves, whatever
\* the state the store is in when it is called.

\* C21: from any state of the store, setUser(u) leaves user = u and
\* isAuthenticated true exactly when u is not null; setAuthenticated(b) sets
\* isAuthenticated to b and leaves user as it was.
C21_SetUser ==
  /\ \A user \in Users \cup {NullUser} :
       \A after \in {setUser(store, user)} :
         /\ after.user = user
         /\ after.isAuthenticated = (user # NullUser)
  /\ \A isAuthenticated \in BOOLEAN :
       \A after \in {setAuthenticated(store, isAuthenticated)} :
         /\ after.isAuthenticated = isAuthenticated
         /\ after.user = store.user

\* A user was set, and then the flag alone was cleared.
C21_Witness ==
  /\ store.user \in Users
  /\ ~store.isAuthenticated

\* C22: addSession(s) puts s at index 0 and keeps every previous session
\* after it, in the same order: each call makes the list one longer, and a
\* list built by addSession calls is in reverse order of insertion.
C22_AddSession ==
  \A session \in Sessions :
    \A after \in {addSession(store, session)} :
      /\ Len(after.sessions) = Len(store.sessions) + 1
      /\ after.sessions[1] = session
      /\ \A i \in DOMAIN store.sessions : after.sessions[i + 1] = store.sessions[i]

\* Three sessions were added, the one of session-2 last.
C22_Witness ==
  store.sessions = << PracticeSession("session-2", "Updated transcript"),
                      PracticeSession("session-1", "Updated transcript"),
                      PracticeSession("session-1", "So, um, hello") >>

\* The positions of the sessions that deleteSession(sessionId) must keep.
keptPositions(sessionId) ==
  {i \in DOMAIN store.sessions : store.sessions[i].id # sessionId}

\* C23: deleteSession(id) removes every session whose id is id and leaves the
\* other sessions, their order and every other field of the store as they
\* were; when no session has the id, the list is unchanged.
C23_DeleteSession ==
  \A sessionId \in SessionIds :
    \A after \in {deleteSession(store, sessionId)} :
      /\ \A k \in DOMAIN store \ {"sessions"} : after[k] = store[k]
      /\ \A i \in DOMAIN after.sessions : after.sessions[i].id # sessionId
      /\ Len(after.sessions) = Cardinality(keptPositions(sessionId))
      /\ \A i \in keptPositions(sessionId) :
           after.sessions[Cardinality({j \in keptPositions(sessionId) : j <= i})]
             = store.sessions[i]
      /\ (keptPositions(sessionId) = DOMAIN store.sessions
            => after.sessions = store.sessions)

\* Two sessions share the id session-1, with another session between them and
\* other fields of the store set: deleting session-1 leaves the one between.
C23_Witness ==
  /\ store.sessions = << PracticeSession("session-1", "So, um, hello"),
                         PracticeSession("session-2", "Updated transcript"),
                         PracticeSession("session-1", "Updated transcript") >>
  /\ store.user = MockUser
  /\ store.settings.goalFillersPerMinute = 5
  /\ ENABLED (/\ StoreCall(deleteSession(store, "session-1"))
              /\ Len(store'.sessions) = 1)

\* C24: updateSettings(p) gives the keys of p their values in p and keeps the
\* other keys; resetSettings restores the defaults (highlightFillers true,
\* showCategories true, goalFillersPerMinute 3) and leaves the user, the
\* sessions and the recording state as they were.
C24_Settings ==
  /\ \A settings \in PartialSettings :
       \A after \in {updateSettings(store, settings)} :
         /\ DOMAIN after.settings = SettingsKeys
         /\ \A k \in SettingsKeys :
              after.settings[k] =
                IF k \in DOMAIN settings THEN settings[k] ELSE store.settings[k]
  /\ \A after \in {resetSettings(store)} :
       /\ after.settings = [highlightFillers |-> TRUE, showCategories |-> TRUE,
                            goalFillersPerMinute |-> 3]
       /\ \A k \in {"user", "isAuthenticated", "sessions", "isRecording",
                    "currentTranscript", "currentAnalysis"} :
            after[k] = store[k]

\* Two of the three settings were changed, while a user is signed in, a
\* recording runs and a session is stored; resetSettings acts on that state.
C24_Witness ==
  /\ store.settings = [highlightFillers |-> TRUE, showCategories |-> FALSE,
                       goalFillersPerMinute |-> 5]
  /\ store.user = MockUser
  /\ store.isRecording
  /\ store.sessions # <<>>
  /\ ENABLED (/\ StoreCall(resetSettings(store))
              /\ store'.settings # store.settings)

----------------------------------------------------------------------------
\* The segments of a highlighted transcript.

\* C25: for every text that is not blank, the segments alternate (no two
\* fillers in a row, no two non-fillers in a row) and no segment has an empty
\* text.
C25_Alternate ==
  (highlighted /\ ~WhitespaceOnly(text)) =>
    /\ \A i \in DOMAIN segments : segments[i].text # <<>>
    /\ \A i \in DOMAIN segments :
         i > 1 => segments[i].isFiller # segments[i - 1].isFiller

\* The category the claim gives to a matched text: that of the first entry
\* selected for the locale whose term is the matched text up to letter case,
\* null when there is none.
lookedUpCategory(selected, matched) ==
  LET same == {k \in DOMAIN selected :
                 toLowerCase(selected[k].term.val) = toLowerCase(matched)}
  IN  IF same = {} THEN Null
      ELSE selected[CHOOSE k \in same : \A j \in same : k <= j].category

\* C26: the category of each filler segment is that of the first entry, in
\* lexicon order, of the lexicon filtered for the locale whose term equals the
\* matched text up to letter case (null, with no error, when there is none),
\* and getSessionAnalysis counts each match under the category of the same
\* lookup.  Stated of the first call of each entry point on the text.
C26_CategoryLookup ==
  \A selected \in {getLexiconForLanguage(language).val} :
    /\ \A i \in DOMAIN reference.segments :
         reference.segments[i].isFiller =>
           reference.segments[i].category
             = lookedUpCategory(selected, reference.segments[i].text)
    /\ (\E i \in DOMAIN reference.segments : reference.segments[i].isFiller)
         => ~getHighlightedTranscript(text, language).threw
    /\ \A category \in {selected[k].category : k \in DOMAIN selected} :
         Cardinality({i \in DOMAIN reference.segments :
                        /\ reference.segments[i].isFiller
                        /\ lookedUpCategory(selected, reference.segments[i].text)
                             = category})
           = IF category \in DOMAIN reference.analysis.categoryCounts
             THEN reference.analysis.categoryCounts[category] ELSE 0

\* "U" and "u" are both terms for en, "U" first: the match "u" takes the
\* category of "U", and the match of final sigma, which no term equals in
\* lower case, takes null; the analysis counts the first under that category.
C26_Witness ==
  /\ lexiconData = LexPhrase
  /\ language = en
  /\ text = <<"u", "s2", "k">>
  /\ Len(reference.segments) = 3
  /\ reference.segments[1].category = "PLACATING_TAG"
  /\ reference.segments[2].isFiller
  /\ reference.segments[2].category = Null
  /\ reference.analysis.categoryCounts = [c \in {"PLACATING_TAG"} |-> 1]
  /\ calls # <<>>

----------------------------------------------------------------------------
\* useAuth.

\* The hook has nothing left to do for authentication.
authSettled ==
  /\ auth.mounted
  /\ ~auth.effectPending
  /\ auth.initPending = 0

\* C27: without Firebase Auth, a subscription through onAuthStateChange
\* delivers the mock (or null) auth state exactly once, and after mounting
\* the cycle of callback, store update and re-subscription of useAuth stops
\* after finitely many steps.
C27_AuthSettles ==
  /\ [](auth.subscribed => auth.delivered = 1)
  /\ <>[]authSettled

----------------------------------------------------------------------------
\* useSpeechRecognition.

\* C28: recognition.start() is never called while a previous start is pending
\* or active (between a start() and the next onend or onerror), however often
\* startListening is called while the permission request or onstart is
\* outstanding.
C28_NoSecondStart == ~speech.restarted

\* C29: after any sequence of recognition events isListening is true exactly
\* when the latest of onstart, onend and onerror was onstart; onend and
\* onerror set it to false and onerror leaves an error message; onresult,
\* onnomatch and resetTranscript leave isListening as it is.
C29_IsListening ==
  /\ speech.isListening = (speech.lastLifecycle = "onstart")
  /\ ~onend(speech).isListening
  /\ \A code \in ErrorCodes :
       \A after \in {onerror(speech, code)} :
         ~after.isListening /\ after.error # Null
  /\ \A event \in SpeechEvents :
       onresult(speech, event).isListening = speech.isListening
  /\ onnomatch(speech).isListening = speech.isListening
  /\ resetTranscript(speech).isListening = speech.isListening

\* The recognition started, a result came, and then an error: the hook no
\* longer listens and shows the message of the error.
C29_Witness ==
  /\ speech.lastLifecycle = "onerror"
  /\ ~speech.isListening
  /\ speech.error = "No speech detected."
  /\ speech.interimTranscript # <<>>

\* a is a prefix of b.
isPrefix(a, b) == Len(a) <= Len(b) /\ SubSeq(b, 1, Len(a)) = a

\* C30: between two resetTranscript calls the transcript only grows by
\* appending and is the concatenation, in the order of the events, of the
\* texts of the results flagged final; no text of a non-final result enters
\* it; interimTranscript is the non-final text of the latest result event.
C30_Transcript ==
  /\ speech.transcript = speech.finals
  /\ speech.interimTranscript = speech.latestInterim
  /\ \A event \in SpeechEvents :
       isPrefix(speech.transcript, onresult(speech, event).transcript)
  /\ \A code \in ErrorCodes :
       onerror(speech, code).transcript = speech.transcript
  /\ onstart(speech).transcript = speech.transcript
  /\ onend(speech).transcript = speech.transcript
  /\ onnomatch(speech).transcript = speech.transcript

\* Two result events brought a final "u" and then a final "k" with a
\* non-final "u" after it.
C30_Witness ==
  /\ speech.transcript = <<"u", "k">>
  /\ speech.interimTranscript = <<"u">>
  /\ speech.lastLifecycle = "onstart"

====
